---- MODULE Spec2Model ----
(***************************************************************************)
(* surl: link creation (createShortLink), the cache-aside redirect route   *)
(* GET /[code], its deferred after() tasks, the Link store (Prisma, with   *)
(* shortCode @unique) and the Redis cache, as one state machine.           *)
(*                                                                         *)
(* Every await of the source is one step: the step is the instant the      *)
(* store or the cache serves the call, followed by the synchronous code up *)
(* to the next await.  Any store or cache call may fail (throw).           *)
(* Time is in milliseconds, as Date.now().                                 *)
(***************************************************************************)
EXTENDS Integers, Sequences, FiniteSets, TLC

\* ------------------------------------------------------------------ bounds
\* Client calls (creations and redirect requests together) in one behaviour.
MaxClients == 3
\* Half seconds the clock is observed for after the first links expire.
MaxHalves == 1

\* Tenths of a second a link of the TTL specification has left, at most.
MaxTenths == 21

\* Rows in the store of the listing specification, and its last clock value.
MaxRows == 11
MaxStamp == 2

\* ------------------------------------------------------- program constants
MAX_ATTEMPTS == 5
EXPIRY_DAYS == 7
SEED_DAYS_BACK == 1
MS_PER_SECOND == 1000
DEFAULT_TTL == 604800
STATUS_NOT_FOUND == 404
STATUS_GONE == 410
STATUS_ERROR == 500
STATUS_REDIRECT == 307
STATUS_OK == 200
TAKE_RECENT == 10

DayMs == 24 * 60 * 60 * 1000
WeekMs == 7 * DayMs

\* The clock is observed at the start and, one week later (when the links
\* created at the start reach their expiresAt), every half second.
Instants == {0} \cup { WeekMs + h * (MS_PER_SECOND \div 2) : h \in 0..MaxHalves }

\* A collision needs two concurrent createShortLink calls, a lost update two
\* concurrent redirects: two slots of each kind, of which MaxClients are used.
Creators == {1, 2}
Requests == {1, 2}

\* Outputs of generateShortCode (6 alphanumeric characters); "exp123" is also
\* the code the seed script writes.
GenCodes == {"AbC123", "exp123"}
\* Codes a client may ask the redirect route for.
Codes == GenCodes \cup {"zzzzzz"}

SeedUrl == "https://example.com/expired-test"
\* Values of the form field "url".
Urls == {"", "javascript:alert(1)", "https://example.com/a/b/c"}

\* DateTime? without a value.
Null == 0 - 2147483647

VARIABLES now, links, cache, call, req, recent, api

vars == <<now, links, cache, call, req, recent, api>>

\* ------------------------------------------------------------- Link store
NoLink == [id |-> 0, url |-> "", shortCode |-> "", createdAt |-> 0,
           expiresAt |-> Null, clicks |-> 0]

\* Mutant: the shortCode column without its unique index.
NoUniqueIndex(ls, code) == FALSE

\* shortCode String @unique: the insert is rejected (P2002) iff the code is held.
UniqueViolation(ls, code) == \E k \in DOMAIN ls : ls[k].shortCode = code

\* prisma.link.findUnique({ where: { shortCode } })
FindUnique(ls, code) ==
    IF \E k \in DOMAIN ls : ls[k].shortCode = code
    THEN ls[CHOOSE k \in DOMAIN ls : ls[k].shortCode = code]
    ELSE NoLink

\* prisma.link.create: id @default(cuid()), createdAt @default(now()), clicks @default(0)
CreateLink(ls, url, code, expiresAt, t) ==
    Append(ls, [id |-> Len(ls) + 1, url |-> url, shortCode |-> code,
                createdAt |-> t, expiresAt |-> expiresAt, clicks |-> 0])

\* Mutant: the counter written from a value read earlier (clicks: 0 + 1), the
\* read-modify-write that loses concurrent updates.
WriteOne(n) == 1

\* Mutant: the increment applied twice.
IncrementTwice(n) == n + 2

\* data: { clicks: { increment: 1 } }: UPDATE Link SET clicks = clicks + 1
Increment(n) == n + 1

\* prisma.link.update({ where: { shortCode: code }, ... }) of the cache-hit task
UpdateByCode(ls, code) ==
    [k \in DOMAIN ls |->
        IF ls[k].shortCode = code
        THEN [ls[k] EXCEPT !.clicks = Increment(@)] ELSE ls[k]]

\* Mutant: the click also clears the link's expiresAt.
UpdateByIdClearsExpiry(ls, id) ==
    [k \in DOMAIN ls |->
        IF ls[k].id = id
        THEN [ls[k] EXCEPT !.clicks = Increment(@), !.expiresAt = Null] ELSE ls[k]]

\* prisma.link.update({ where: { id: link.id }, ... }) of the cache-miss task
UpdateById(ls, id) ==
    [k \in DOMAIN ls |->
        IF ls[k].id = id
        THEN [ls[k] EXCEPT !.clicks = Increment(@)] ELSE ls[k]]

\* ------------------------------------------------------------ Redis cache
NoEntry == [url |-> "", expireAt |-> Null]

\* redis.get(`link:${code}`): the value, or null ("") once the key's TTL ran out
RedisGet(c, code, t) ==
    IF c[code] # NoEntry /\ t < c[code].expireAt THEN c[code].url ELSE ""

\* Mutant: the write deletes the key when the key is already there.
RedisSetOrDelete(c, code, url, ttl, t) ==
    IF c[code] # NoEntry
    THEN [c EXCEPT ![code] = NoEntry]
    ELSE [c EXCEPT ![code] = [url |-> url, expireAt |-> t + ttl * MS_PER_SECOND]]

\* Mutants: the write sent without its value reaching the key, and the write
\* storing the code where the url belongs.
RedisSetLost(c, code, url, ttl, t) == c
RedisSetCode(c, code, url, ttl, t) ==
    [c EXCEPT ![code] = [url |-> code, expireAt |-> t + ttl * MS_PER_SECOND]]

\* redis.set(`link:${code}`, url, { ex: ttl }): the key lives ttl seconds from t
RedisSet(c, code, url, ttl, t) ==
    [c EXCEPT ![code] = [url |-> url, expireAt |-> t + ttl * MS_PER_SECOND]]

\* Redis drops the keys whose TTL ran out.
Expire(c, t) ==
    [k \in DOMAIN c |-> IF c[k] # NoEntry /\ c[k].expireAt <= t THEN NoEntry ELSE c[k]]

\* ------------------------------------------------------------ seed script
\* prisma/seed.ts main: expiresAt = yesterday, createdAt defaults to now
SeedMain(ls, t) ==
    CreateLink(ls, SeedUrl, "exp123", t - SEED_DAYS_BACK * DayMs, t)

\* --------------------------------------------------------- createShortLink
\* isValidUrl of @/lib/utils: only http / https URLs
isValidUrl(url) == url \in {"https://example.com/a/b/c", SeedUrl}

\* The locals of one call, the number of generateShortCode() calls it made, the
\* value it returned (result, and link: the id of the row returned) and what
\* its catch block logged.
IdleCall == [pc |-> "idle", url |-> "", i |-> 0, shortCode |-> "",
             isUnique |-> FALSE, expiresAt |-> Null, generated |-> 0,
             result |-> "none", link |-> 0, logged |-> "none"]

\* The values returned by createShortLink.
RequiredError == "URL is required"
InvalidError == "Please enter a valid URL (e.g., https://example.com)"
ExhaustedError == "Failed to generate a unique short code. Please try again."
UnexpectedError == "An unexpected error occurred"
Success == "success"

\* Mutant: every return carries success: true.
ReturnAlwaysSuccess(c) == [success |-> TRUE, link |-> c.link]

\* The object a finished call returned: { success: true, link: newLink } of
\* line 51, or { error: "..." } of lines 11, 15, 36 and 54 (no success field).
ReturnValue(c) ==
    IF c.result = Success
    THEN [success |-> TRUE, link |-> c.link]
    ELSE [error |-> c.result]

\* The client calls (creations and redirect requests) made so far; a behaviour
\* holds at most MaxClients of them.
Clients ==
    Cardinality({p \in Creators : call[p].pc # "idle"})
    + Cardinality({r \in Requests : req[r].pc # "idle"})

\* Calls are numbered in the order they arrive.
Arrived(p) == Clients < MaxClients /\ \A o \in Creators : o < p => call[o].pc # "idle"

\* Mutant: the form field handed to the loop without the two checks.
SubmitUnchecked(p, url) ==
    /\ call[p].pc = "idle"
    /\ Arrived(p)
    /\ call' = [call EXCEPT ![p] = [@ EXCEPT !.pc = "loop", !.url = url]]
    /\ UNCHANGED <<now, links, cache, req, recent, api>>

\* lines 8-20: read the field, validate, enter the try block
Submit(p, url) ==
    /\ call[p].pc = "idle"
    /\ Arrived(p)
    /\ call' = [call EXCEPT ![p] =
                  IF url = ""
                  THEN [@ EXCEPT !.pc = "done", !.url = url, !.result = RequiredError]
                  ELSE IF ~isValidUrl(url)
                  THEN [@ EXCEPT !.pc = "done", !.url = url, !.result = InvalidError]
                  ELSE [@ EXCEPT !.pc = "loop", !.url = url]]
    /\ UNCHANGED <<now, links, cache, req, recent, api>>

\* Mutants: the retry loop one iteration short, and one iteration long.
LoopOfFour(i) == i < MAX_ATTEMPTS - 1
LoopOfSix(i) == i < MAX_ATTEMPTS + 1

\* the loop condition of line 23
LoopContinues(i) == i < MAX_ATTEMPTS

\* Mutant: the window of the seed script (one day) in place of the 7 days.
ExpiryOfOneDay(t) == t + SEED_DAYS_BACK * DayMs

\* new Date(); setDate(getDate() + 7)
ExpiryOf(t) == t + EXPIRY_DAYS * DayMs

\* lines 23-40: one iteration: generateShortCode() returns code, findUnique
\* answers; then either the next iteration, the exhaustion return, or the
\* code up to the await of prisma.link.create.
Attempt(p, code) ==
    /\ call[p].pc = "loop"
    /\ LoopContinues(call[p].i)
    /\ LET existing == FindUnique(links, code)
           c1 == [call[p] EXCEPT !.shortCode = code, !.generated = @ + 1]
       IN call' = [call EXCEPT ![p] =
                IF existing = NoLink
                THEN [c1 EXCEPT !.isUnique = TRUE, !.pc = "create",
                                !.expiresAt = ExpiryOf(now)]
                ELSE IF LoopContinues(c1.i + 1)
                THEN [c1 EXCEPT !.i = @ + 1]
                ELSE [c1 EXCEPT !.i = @ + 1, !.pc = "done",
                                !.result = ExhaustedError]]
    /\ UNCHANGED <<now, links, cache, req, recent, api>>

\* Mutant: the exception caught inside the loop, which goes on.
CaughtInLoop(c, error) == [c EXCEPT !.logged = error, !.i = @ + 1]

\* lines 52-54: any exception of the try block: log it, return the error (the
\* locals of the try block are gone)
Caught(c, error) ==
    [c EXCEPT !.pc = "done", !.result = UnexpectedError, !.logged = error,
              !.i = 0, !.shortCode = "", !.isUnique = FALSE, !.expiresAt = Null]

\* findUnique throws (store failure) after generateShortCode() returned code
AttemptFails(p, code) ==
    /\ call[p].pc = "loop"
    /\ LoopContinues(call[p].i)
    /\ call' = [call EXCEPT ![p] =
                  Caught([@ EXCEPT !.shortCode = code, !.generated = @ + 1],
                         "StoreError")]
    /\ UNCHANGED <<now, links, cache, req, recent, api>>

\* lines 42-51: prisma.link.create is served: the row is written, or the
\* unique constraint rejects it (P2002) and the catch block returns
Insert(p) ==
    /\ call[p].pc = "create"
    /\ IF UniqueViolation(links, call[p].shortCode)
       THEN /\ call' = [call EXCEPT ![p] = Caught(@, "P2002")]
            /\ UNCHANGED links
       ELSE /\ links' = CreateLink(links, call[p].url, call[p].shortCode,
                                   call[p].expiresAt, now)
            /\ call' = [call EXCEPT ![p] =
                          [@ EXCEPT !.pc = "done", !.result = Success,
                                    !.link = links'[Len(links')].id,
                                    !.expiresAt = Null]]
    /\ UNCHANGED <<now, cache, req, recent, api>>

\* Mutant: the insert fails after the row was written.
InsertFailsAfterWrite(p) ==
    /\ call[p].pc = "create"
    /\ links' = CreateLink(links, call[p].url, call[p].shortCode,
                            call[p].expiresAt, now)
    /\ call' = [call EXCEPT ![p] = Caught(@, "StoreError")]
    /\ UNCHANGED <<now, cache, req, recent, api>>

\* prisma.link.create throws for another reason (store failure)
InsertFails(p) ==
    /\ call[p].pc = "create"
    /\ call' = [call EXCEPT ![p] = Caught(@, "StoreError")]
    /\ UNCHANGED <<now, links, cache, req, recent, api>>

\* ------------------------------------------------------------ clock
\* A call of createShortLink or a request (with its deferred task) is under way.
InFlight ==
    \/ \E p \in Creators : call[p].pc \in {"loop", "create"}
    \/ \E r \in Requests : req[r].pc \notin {"idle", "done"}

\* Time passes; a call or a task under way lasts less than a day.
Tick(t) ==
    /\ t > now
    /\ InFlight => t - now < DayMs
    /\ now' = t
    /\ cache' = Expire(cache, t)
    /\ UNCHANGED <<links, call, req, recent, api>>

\* ------------------------------------------------------------ GET /[code]
IdleReq == [pc |-> "idle", code |-> "", status |-> 0, target |-> "",
            task |-> "none", link |-> [id |-> 0, url |-> ""], ttl |-> 0,
            error |-> "none", bgError |-> "none"]

\* Mutant: a link is expired from its expiresAt on (<=).
IsExpiredFrom(link, t) == link.expiresAt # Null /\ link.expiresAt <= t

\* link.expiresAt && link.expiresAt < new Date()
IsExpired(link, t) == link.expiresAt # Null /\ link.expiresAt < t

Max(a, b) == IF a >= b THEN a ELSE b

\* Mutant: Math.ceil in place of Math.floor.
TtlCeil(link, t) ==
    IF link.expiresAt # Null
    THEN Max(1, (link.expiresAt - t + MS_PER_SECOND - 1) \div MS_PER_SECOND)
    ELSE DEFAULT_TTL

\* lines 55-57: Math.max(1, Math.floor((expiresAt - Date.now()) / 1000)) or 604800
Ttl(link, t) ==
    IF link.expiresAt # Null
    THEN Max(1, (link.expiresAt - t) \div MS_PER_SECOND)
    ELSE DEFAULT_TTL

\* Mutant: the catch block logs and does not return.
CatchAndGoOn(q, error) == [q EXCEPT !.pc = "done", !.error = error]

\* lines 74-77: any exception of the try block
CatchAll(q, error) ==
    [q EXCEPT !.pc = "done", !.status = STATUS_ERROR, !.error = error]

\* Mutant: a cache hit verified against the store before the answer.
OnHitVerified(q, cachedUrl) == [q EXCEPT !.pc = "storeFind"]

\* lines 22-35 and 79-81: cache hit: register the increment, redirect
OnHit(q, cachedUrl) ==
    [q EXCEPT !.pc = "hitUpdate", !.target = cachedUrl, !.task = "hit",
              !.status = STATUS_REDIRECT]

\* Requests are numbered in the order their cache lookup is served.
Started(r) == Clients < MaxClients /\ \A o \in Requests : o < r => req[o].pc # "idle"

\* lines 10-37: the request arrives and redis.get is served
CacheLookup(r, code) ==
    /\ req[r].pc = "idle"
    /\ Started(r)
    /\ LET cachedUrl == RedisGet(cache, code, now)
           q == [req[r] EXCEPT !.code = code]
       IN req' = [req EXCEPT ![r] =
                    IF cachedUrl # ""
                    THEN OnHit(q, cachedUrl)
                    ELSE [q EXCEPT !.pc = "storeFind"]]
    /\ UNCHANGED <<now, links, cache, call, recent, api>>

\* redis.get throws (cache failure)
CacheLookupFails(r, code) ==
    /\ req[r].pc = "idle"
    /\ Started(r)
    /\ req' = [req EXCEPT ![r] = CatchAll([@ EXCEPT !.code = code], "CacheError")]
    /\ UNCHANGED <<now, links, cache, call, recent, api>>

\* Mutant: the increment registered before the not-found / expired checks.
RespondCounting(q, status) ==
    [q EXCEPT !.pc = "hitUpdate", !.status = status, !.task = "hit"]

\* lines 43-49: the answers of the store path that schedule nothing
Respond(q, status) == [q EXCEPT !.pc = "done", !.status = status]

\* Mutant: the task awaited before the redirect is returned, as the awaited
\* prisma.link.update of the cache-less route.
OnValidAwaited(q, link, t) ==
    [q EXCEPT !.pc = "missSet", !.link = [id |-> link.id, url |-> link.url],
              !.target = link.url, !.ttl = Ttl(link, t), !.task = "miss"]

\* lines 51-72 and 79-81: valid link: compute the TTL, register the task, redirect
OnValid(q, link, t) ==
    [q EXCEPT !.pc = "missSet", !.link = [id |-> link.id, url |-> link.url],
              !.target = link.url,
              !.ttl = Ttl(link, t), !.task = "miss", !.status = STATUS_REDIRECT]

\* lines 39-73: prisma.link.findUnique is served
StoreLookup(r) ==
    /\ req[r].pc = "storeFind"
    /\ LET link == FindUnique(links, req[r].code)
       IN req' = [req EXCEPT ![r] =
                    IF link = NoLink THEN Respond(@, STATUS_NOT_FOUND)
                    ELSE IF IsExpired(link, now) THEN Respond(@, STATUS_GONE)
                    ELSE OnValid(@, link, now)]
    /\ UNCHANGED <<now, links, cache, call, recent, api>>

\* findUnique throws (store failure)
StoreLookupFails(r) ==
    /\ req[r].pc = "storeFind"
    /\ req' = [req EXCEPT ![r] = CatchAll(@, "StoreError")]
    /\ UNCHANGED <<now, links, cache, call, recent, api>>

\* The task ended: its closure (link, ttl) is dropped.
TaskDone(q) == [q EXCEPT !.pc = "done", !.link = IdleReq.link, !.ttl = 0]

\* Mutant: the task's exception reaching the response.
TaskCaughtFatal(q, where) ==
    [TaskDone(q) EXCEPT !.bgError = where, !.status = STATUS_ERROR, !.target = ""]

\* lines 32-34 and 69-71: the task's own catch: log the message and the error
\* caught (bgError), and drop it
TaskCaught(q, where) == [TaskDone(q) EXCEPT !.bgError = where]

\* Mutant: the increment of the cache-hit task also invalidates the entry.
HitUpdateInvalidates(r) ==
    /\ req[r].pc = "hitUpdate"
    /\ links' = UpdateByCode(links, req[r].code)
    /\ cache' = [cache EXCEPT ![req[r].code] = NoEntry]
    /\ req' = [req EXCEPT ![r] = TaskDone(@)]
    /\ UNCHANGED <<now, call, recent, api>>

\* lines 26-31: the cache-hit task: the increment
HitUpdate(r) ==
    /\ req[r].pc = "hitUpdate"
    /\ links' = UpdateByCode(links, req[r].code)
    /\ req' = [req EXCEPT ![r] = TaskDone(@)]
    /\ UNCHANGED <<now, cache, call, recent, api>>

HitUpdateFails(r) ==
    /\ req[r].pc = "hitUpdate"
    /\ req' = [req EXCEPT ![r] = TaskCaught(@, "hit: StoreError")]
    /\ UNCHANGED <<now, links, cache, call, recent, api>>

\* lines 59-62: the cache-miss task: redis.set with the TTL computed at lookup
MissSet(r) ==
    /\ req[r].pc = "missSet"
    /\ cache' = RedisSet(cache, req[r].code, req[r].link.url, req[r].ttl, now)
    /\ req' = [req EXCEPT ![r].pc = "missUpdate"]
    /\ UNCHANGED <<now, links, call, recent, api>>

\* Mutant: the two awaits of the task in try blocks of their own.
MissSetFailsGoesOn(r) ==
    /\ req[r].pc = "missSet"
    /\ req' = [req EXCEPT ![r].pc = "missUpdate"]
    /\ UNCHANGED <<now, links, cache, call, recent, api>>

MissSetFails(r) ==
    /\ req[r].pc = "missSet"
    /\ req' = [req EXCEPT ![r] = TaskCaught(@, "miss: CacheError")]
    /\ UNCHANGED <<now, links, cache, call, recent, api>>

\* lines 64-68: the cache-miss task: the increment
MissUpdate(r) ==
    /\ req[r].pc = "missUpdate"
    /\ links' = UpdateById(links, req[r].link.id)
    /\ req' = [req EXCEPT ![r] = TaskDone(@)]
    /\ UNCHANGED <<now, cache, call, recent, api>>

MissUpdateFails(r) ==
    /\ req[r].pc = "missUpdate"
    /\ req' = [req EXCEPT ![r] = TaskCaught(@, "miss: StoreError")]
    /\ UNCHANGED <<now, links, cache, call, recent, api>>

\* ------------------------------------------------ the cache-less GET /[code]
\* The answer of the route that reads the store alone: findUnique, 404, 410
\* by the same expiry test, else the redirect to link.url.
DirectGet(ls, code, t) ==
    LET link == FindUnique(ls, code)
    IN IF link = NoLink THEN [status |-> STATUS_NOT_FOUND, target |-> ""]
       ELSE IF IsExpired(link, t) THEN [status |-> STATUS_GONE, target |-> ""]
       ELSE [status |-> STATUS_REDIRECT, target |-> link.url]

\* The store it leaves: the awaited increment of a valid link, by id.
DirectStore(ls, code, t) ==
    IF DirectGet(ls, code, t).status = STATUS_REDIRECT
    THEN UpdateById(ls, FindUnique(ls, code).id)
    ELSE ls

\* ---------------------------------------------------------- specification
\* GET /api/links has not been called.
NoResponse == [status |-> 0, links |-> <<>>, logged |-> "none"]

\* The store is empty, or holds the row of the seed script run at time 0.
Init ==
    /\ now = 0
    /\ links \in {<<>>, SeedMain(<<>>, 0)}
    /\ cache = [c \in Codes |-> NoEntry]
    /\ call = [p \in Creators |-> IdleCall]
    /\ req = [r \in Requests |-> IdleReq]
    /\ recent = <<>>
    /\ api = NoResponse

Next ==
    \/ \E t \in Instants : Tick(t)
    \/ \E p \in Creators, url \in Urls : Submit(p, url)
    \/ \E p \in Creators, code \in GenCodes : Attempt(p, code)
    \/ \E p \in Creators, code \in GenCodes : AttemptFails(p, code)
    \/ \E p \in Creators : Insert(p)
    \/ \E p \in Creators : InsertFails(p)
    \/ \E r \in Requests, code \in Codes : CacheLookup(r, code)
    \/ \E r \in Requests, code \in Codes : CacheLookupFails(r, code)
    \/ \E r \in Requests : StoreLookup(r)
    \/ \E r \in Requests : StoreLookupFails(r)
    \/ \E r \in Requests : HitUpdate(r)
    \/ \E r \in Requests : HitUpdateFails(r)
    \/ \E r \in Requests : MissSet(r)
    \/ \E r \in Requests : MissSetFails(r)
    \/ \E r \in Requests : MissUpdate(r)
    \/ \E r \in Requests : MissUpdateFails(r)

Spec == Init /\ [][Next]_vars

\* --------------------------------------------------------- getRecentLinks
\* Row k comes before row j in ORDER BY createdAt DESC; the order of two rows
\* of equal createdAt is the store's choice (by id, one way or the other).
Before(ls, k, j, newestIdFirst) ==
    \/ k = j
    \/ ls[k].createdAt > ls[j].createdAt
    \/ /\ ls[k].createdAt = ls[j].createdAt
       /\ IF newestIdFirst THEN k > j ELSE k < j

RECURSIVE TakeFirst(_, _, _, _)
TakeFirst(ls, rows, n, newestIdFirst) ==
    IF n = 0 \/ rows = {} THEN <<>>
    ELSE LET top == CHOOSE k \in rows :
                      \A j \in rows : Before(ls, k, j, newestIdFirst)
         IN <<ls[top]>> \o TakeFirst(ls, rows \ {top}, n - 1, newestIdFirst)

\* Mutant: orderBy createdAt "asc".
FindManyOldest(ls, newestIdFirst) ==
    [k \in 1..(IF Len(ls) < TAKE_RECENT THEN Len(ls) ELSE TAKE_RECENT) |-> ls[k]]

\* prisma.link.findMany({ orderBy: { createdAt: "desc" }, take: 10 })
FindManyRecent(ls, newestIdFirst) == TakeFirst(ls, DOMAIN ls, TAKE_RECENT, newestIdFirst)

\* How a call of getRecentLinks ended: with a value returned, or thrown.
Returned(list) == [thrown |-> FALSE, value |-> list]

\* Mutant: the catch block logs and throws the error on.
ListRethrown == [thrown |-> TRUE, value |-> <<>>]

\* lines 65-68: the catch block of getRecentLinks: log, return []
ListCaught == Returned(<<>>)

\* GET /api/links (route.ts lines 5-12): { links } with the default status,
\* or the 500 of its catch block; logged is what the call wrote to the console.
ApiLinks(outcome, logged) ==
    IF outcome.thrown
    THEN [status |-> STATUS_ERROR, links |-> <<>>, logged |-> logged]
    ELSE [status |-> STATUS_OK, links |-> outcome.value, logged |-> logged]

\* lines 58-64 (and GET /api/links, which hands the list on): findMany is served
GetRecentLinks(newestIdFirst) ==
    /\ recent' = FindManyRecent(links, newestIdFirst)
    /\ api' = ApiLinks(Returned(recent'), "none")
    /\ UNCHANGED <<now, links, cache, call, req>>

\* lines 65-68: findMany throws: the catch logs and returns []
GetRecentLinksFails ==
    /\ recent' = ListCaught.value
    /\ api' = ApiLinks(ListCaught, "Failed to fetch recent links:")
    /\ UNCHANGED <<now, links, cache, call, req>>

\* The 6 characters of the code of the n-th row.
ListCode(n) == (IF n < 10 THEN "row00" ELSE "row0") \o ToString(n)

\* A createShortLink call made and served at the present instant.
ListCreate ==
    /\ Len(links) < MaxRows
    /\ links' = CreateLink(links, "https://example.com/a/b/c",
                            ListCode(Len(links) + 1), ExpiryOf(now), now)
    /\ UNCHANGED <<now, cache, call, req, recent, api>>

ListTick ==
    /\ now < MaxStamp
    /\ now' = now + 1
    /\ UNCHANGED <<links, cache, call, req, recent, api>>

\* The listing over stores of up to MaxRows rows created at the instants
\* 0..MaxStamp, several of them in the same millisecond.
ListInit == Init /\ links = <<>>

ListNext ==
    \/ ListCreate
    \/ ListTick
    \/ \E newestIdFirst \in BOOLEAN : GetRecentLinks(newestIdFirst)
    \/ GetRecentLinksFails

ListSpec == ListInit /\ [][ListNext]_vars

\* ------------------------------------------- the TTL over a range of links
\* The redirect route alone, on a store of three rows: one whose expiresAt is
\* 0 to MaxTenths tenths of a second ahead, one without an expiresAt
\* (expiresAt DateTime? of the schema), and one that expired a millisecond ago.
TtlLinks(h) ==
    << [id |-> 1, url |-> "https://example.com/a/b/c", shortCode |-> "AbC123",
        createdAt |-> h * (MS_PER_SECOND \div 10) - WeekMs,
        expiresAt |-> h * (MS_PER_SECOND \div 10), clicks |-> 0],
       [id |-> 2, url |-> "https://example.com/a/b/c", shortCode |-> "zzzzzz",
        createdAt |-> 0 - WeekMs, expiresAt |-> Null, clicks |-> 0],
       [id |-> 3, url |-> SeedUrl, shortCode |-> "exp123",
        createdAt |-> 0 - DayMs, expiresAt |-> 0 - 1, clicks |-> 0] >>

TtlInit ==
    /\ now = 0
    /\ links \in { TtlLinks(h) : h \in 0..MaxTenths }
    /\ cache = [c \in Codes |-> NoEntry]
    /\ call = [p \in Creators |-> IdleCall]
    /\ req = [r \in Requests |-> IdleReq]
    /\ recent = <<>>
    /\ api = NoResponse

TtlNext ==
    \/ \E r \in Requests, code \in Codes : CacheLookup(r, code)
    \/ \E r \in Requests : StoreLookup(r)
    \/ \E r \in Requests : MissSet(r)

TtlSpec == TtlInit /\ [][TtlNext]_vars

\* ------------------------------------------------------- what is checked
\* The row holding a code, the rows the calls of createShortLink wrote, and
\* the requests answered with a redirect to a code.
LinkOf(code) == FindUnique(links, code)
CreatedRows == {k \in DOMAIN links : links[k].url # SeedUrl}
Succeeded == {p \in Creators : call[p].result = Success}
Redirected(code) ==
    {r \in Requests : req[r].code = code /\ req[r].status = STATUS_REDIRECT}
Settled == \A r \in Requests : req[r].pc \in {"idle", "done"}
\* No other call of createShortLink was ever made.
Solo(p) == \A o \in Creators \ {p} : call[o].pc = "idle"
\* The call went through validation and met no store failure.
Ran(p) ==
    /\ call[p].pc = "done"
    /\ isValidUrl(call[p].url)
    /\ call[p].logged # "StoreError"

\* C1: no two distinct persisted links hold the same shortCode, whatever the
\* interleaving of the createShortLink calls and whatever the generator returns.
C1_Uniqueness ==
    \A j \in DOMAIN links : \A k \in DOMAIN links :
        j # k => links[j].shortCode # links[k].shortCode

\* Two calls got the same candidate, both saw it free, one insert was rejected.
C1_Witness ==
    /\ \E p \in Creators : call[p].logged = "P2002"
    /\ \E p \in Creators : call[p].result = Success

\* C2: a call whose insert is rejected by the uniqueness check retries with a
\* fresh code; the conflict reaches the caller only as the exhaustion error
\* after MAX_ATTEMPTS collisions.
C2_InsertAndRetry ==
    \A p \in Creators :
        (call[p].pc = "done" /\ call[p].logged = "P2002") =>
            \/ call[p].result = Success
            \/ call[p].result = ExhaustedError /\ call[p].generated = MAX_ATTEMPTS

\* C3: with no other creator and no store failure, a call whose generator
\* collides k <= 4 times goes on to call k+1, and when call k+1 returns a code
\* no link holds, the call succeeds and its link holds exactly that code.
C3_RetrySuccess ==
    \A p \in Creators :
        (Solo(p) /\ Ran(p)) =>
            /\ call[p].result = ExhaustedError => call[p].i > 4
            /\ (\A k \in DOMAIN links :
                    links[k].id # call[p].link => links[k].shortCode # call[p].shortCode)
               => /\ call[p].result = Success
                  /\ call[p].generated = call[p].i + 1
                  /\ call[p].i <= 4
                  /\ \E k \in DOMAIN links :
                        /\ links[k].id = call[p].link
                        /\ links[k].shortCode = call[p].shortCode

\* Four collisions with the seeded code, then a fresh code on the fifth call.
C3_Witness ==
    \E p \in Creators :
        /\ Solo(p)
        /\ call[p].result = Success
        /\ call[p].i = 4
        /\ call[p].generated = 5

\* C4: a call all of whose candidates collide makes exactly MAX_ATTEMPTS
\* generator calls (no call ever makes a sixth), returns the exhaustion error
\* and persists no link: the rows written are those of the successful calls.
C4_Exhaustion ==
    /\ \A p \in Creators :
        /\ call[p].generated <= 5
        /\ (Ran(p) /\ call[p].logged = "none" /\ ~call[p].isUnique) =>
              /\ call[p].generated = 5
              /\ call[p].result = ExhaustedError
              /\ call[p].link = 0
    /\ Cardinality(CreatedRows) = Cardinality(Succeeded)

C4_Witness ==
    \E p \in Creators :
        /\ call[p].result = ExhaustedError
        /\ call[p].generated = 5
        /\ \E k \in DOMAIN links : links[k].shortCode = call[p].shortCode

\* C5: once every deferred task has run, and with no cache or store failure
\* among the requests to a code, the link's clicks equals the number M of
\* redirects answered for that code (cache hits and misses alike).
C5_AtomicCounter ==
    \A c \in Codes :
        (/\ Settled
         /\ \A r \in Requests :
               req[r].code = c => req[r].error = "none" /\ req[r].bgError = "none")
        => LinkOf(c).clicks = Cardinality(Redirected(c))

\* Two redirects of one code whose tasks overlapped, both counted.
C5_Witness ==
    \E c \in Codes :
        /\ Settled
        /\ Cardinality(Redirected(c)) = 2
        /\ \A r \in Redirected(c) : req[r].bgError = "none"
        /\ LinkOf(c).clicks = 2

\* C6: a request to a code whose link is past its expiresAt is never answered
\* with a redirect, cache entry or not.
C6_ExpirationPrecedence ==
    [][\A r \in Requests :
         (req[r].status = 0 /\ req'[r].status = STATUS_REDIRECT) =>
             ~IsExpired(FindUnique(links, req'[r].code), now)]_vars

\* C7: while the cache holds an entry for a code whose link has an expiresAt,
\* the current time is not later than that expiresAt.
C7_CacheWithinValidity ==
    \A c \in Codes :
        (RedisGet(cache, c, now) # "" /\ LinkOf(c).expiresAt # Null) =>
            now <= LinkOf(c).expiresAt

\* C8: a request whose cache lookup failed is answered as a miss would be,
\* never with a 500.
C8_CacheFailureIsMiss ==
    \A r \in Requests :
        req[r].error = "CacheError" =>
            req[r].status \in {0, STATUS_REDIRECT, STATUS_NOT_FOUND, STATUS_GONE}

\* C9: a request whose store lookup failed is answered 500, is given no
\* redirect target, and has no deferred task (no cache population, no click
\* increment) registered or running.
C9_StoreFailureFatal ==
    \A r \in Requests :
        req[r].error = "StoreError" =>
            /\ req[r].status = STATUS_ERROR
            /\ req[r].target = ""
            /\ req[r].task = "none"
            /\ req[r].pc = "done"

C9_Witness ==
    \E r \in Requests :
        /\ req[r].error = "StoreError"
        /\ req[r].status = STATUS_ERROR
        /\ LinkOf(req[r].code) # NoLink

\* C10: a request answered 404 or 410 registers no task and is over; so every
\* link's clicks counts only the finished increments of redirected requests,
\* and every cache entry was written by the task of a redirected cache miss.
C10_NoAccounting ==
    /\ \A r \in Requests :
          req[r].status \in {STATUS_NOT_FOUND, STATUS_GONE} =>
              req[r].task = "none" /\ req[r].pc = "done" /\ req[r].target = ""
    /\ \A k \in DOMAIN links :
          links[k].clicks =
              Cardinality({r \in Redirected(links[k].shortCode) :
                             req[r].pc = "done" /\ req[r].bgError = "none"})
    /\ \A c \in Codes :
          cache[c] # NoEntry =>
              \E r \in Redirected(c) :
                  req[r].task = "miss" /\ req[r].pc \in {"missUpdate", "done"}

\* An unknown code answered 404 and the expired seed link answered 410, its
\* clicks still 0.
C10_Witness ==
    /\ \E r \in Requests : req[r].status = STATUS_NOT_FOUND
    /\ \E r \in Requests :
          /\ req[r].status = STATUS_GONE
          /\ LinkOf(req[r].code).clicks = 0

\* The deferred task of a request is registered and has not ended.
Pending(r) == req[r].pc \in {"hitUpdate", "missSet", "missUpdate"}

LooksUp(r) == req[r].pc = "idle" /\ req'[r].pc # "idle" /\ req'[r].error = "none"

\* Request o was answered with a redirect read from the store, and the lookup
\* of r, to the same code, is served at least a second before the link's
\* expiresAt, that is inside the TTL computed for o (lines 55-57).
FirstAnswered(o, r) ==
    /\ o # r
    /\ req[o].code = req'[r].code
    /\ req[o].status = STATUS_REDIRECT
    /\ req[o].task = "miss"
    /\ now + MS_PER_SECOND <= LinkOf(req[o].code).expiresAt

\* The redis.set of request o's task was served.
Populated(o) ==
    \/ req[o].pc = "missUpdate"
    \/ req[o].pc = "done" /\ req[o].bgError \in {"none", "miss: StoreError"}

C13_ResolutionCorrectness ==
    \A r \in Requests :
        req[r].status = STATUS_REDIRECT =>
            /\ LinkOf(req[r].code) # NoLink
            /\ req[r].target = LinkOf(req[r].code).url

\* A redirect served from the cache entry another request wrote.
C13_Witness ==
    \E r \in Requests :
        /\ req[r].status = STATUS_REDIRECT
        /\ req[r].task = "hit"
        /\ req[r].target = LinkOf(req[r].code).url

\* C14: a call whose url field is empty, or is rejected by isValidUrl, is over
\* at once with the validation error of its case: it made no generator call,
\* read and wrote nothing in the store and logged nothing; no row of the store
\* holds a rejected url.
C14_ValidationFailsFast ==
    /\ \A p \in Creators :
          (call[p].pc # "idle" /\ ~isValidUrl(call[p].url)) =>
              /\ call[p].pc = "done"
              /\ call[p].result = IF call[p].url = "" THEN RequiredError ELSE InvalidError
              /\ call[p].generated = 0
              /\ call[p].shortCode = ""
              /\ call[p].link = 0
              /\ call[p].logged = "none"
    /\ \A k \in DOMAIN links : isValidUrl(links[k].url)

\* An empty field and a javascript: url, both turned down.
C14_Witness ==
    /\ \E p \in Creators : call[p].result = RequiredError
    /\ \E p \in Creators : call[p].result = InvalidError /\ call[p].url # ""

RowOf(p) == links[CHOOSE k \in DOMAIN links : links[k].id = call[p].link]

Errors == {RequiredError, InvalidError, ExhaustedError, UnexpectedError}

C18_BackgroundSwallowed ==
    \A r \in Requests :
        /\ req[r].bgError # "none" =>
              /\ req[r].pc = "done"
              /\ req[r].status = STATUS_REDIRECT
              /\ req[r].target = LinkOf(req[r].code).url
              /\ req[r].error = "none"
        /\ req[r].status = STATUS_ERROR => req[r].error \in {"CacheError", "StoreError"}

\* The cache population of one request failed; another request to the same
\* code was redirected and its own task ran to its end.
C18_Witness ==
    \E r \in Requests : \E o \in Requests :
        /\ req[r].bgError = "miss: CacheError"
        /\ req[r].status = STATUS_REDIRECT
        /\ o # r
        /\ req[o].code = req[r].code
        /\ req[o].status = STATUS_REDIRECT
        /\ req[o].pc = "done"
        /\ req[o].bgError = "none"

\* The increment of a finished task was sent to the store (and served, or
\* answered with a failure).
IncrementExecuted(r) == req[r].bgError \in {"none", "hit: StoreError", "miss: StoreError"}

\* C19: the deferred task of a redirected request does not end without
\* having executed the request's click increment.
C19_IncrementRuns ==
    \A r \in Requests :
        (req[r].status = STATUS_REDIRECT /\ req[r].pc = "done") => IncrementExecuted(r)

\* C20: a link's clicks is never negative and never above the number of
\* redirects issued so far for its code, and no step lowers it.
C20_CounterInvariant ==
    /\ [](\A k \in DOMAIN links :
            /\ links[k].clicks >= 0
            /\ links[k].clicks <= Cardinality(Redirected(links[k].shortCode)))
    /\ [][\A k \in DOMAIN links : links'[k].clicks >= links[k].clicks]_vars

\* Two redirects issued for a code, one increment applied so far.
C20_Witness ==
    \E k \in DOMAIN links :
        /\ links[k].clicks = 1
        /\ Cardinality(Redirected(links[k].shortCode)) = 2
        /\ \E r \in Redirected(links[k].shortCode) : Pending(r)

\* A row but for its click counter.
Frozen(link) == [link EXCEPT !.clicks = 0]

\* C21: no step deletes a persisted link or changes its id, url, shortCode,
\* createdAt or expiresAt: rows are only appended and only their clicks
\* change; a step of the clock (a link reaching its expiresAt) changes no row.
C21_LinkImmutability ==
    [][/\ Len(links') >= Len(links)
       /\ \A k \in DOMAIN links : Frozen(links'[k]) = Frozen(links[k])
       /\ now' # now => links' = links]_vars

\* A created link that was clicked and is now past its expiresAt, another
\* link created since.
C21_Witness ==
    \E k \in DOMAIN links :
        /\ links[k].url # SeedUrl
        /\ links[k].clicks = 1
        /\ links[k].expiresAt < now
        /\ k < Len(links)

\* C22: every cache entry of a code holds the url of the persisted link with
\* that code; an entry is written only by the deferred task of a request
\* whose store lookup found that link valid, and it leaves the cache only
\* when its TTL runs out: no creation and no increment writes or removes it.
C22_CacheAside ==
    /\ [](\A c \in Codes :
            cache[c] # NoEntry =>
                LinkOf(c) # NoLink /\ cache[c].url = LinkOf(c).url)
    /\ [][\A c \in Codes :
            cache'[c] # cache[c] =>
                \/ cache'[c] = NoEntry /\ now' > now /\ cache[c].expireAt <= now'
                \/ \E r \in Requests :
                      /\ req[r].code = c
                      /\ req[r].pc = "missSet" /\ req'[r].pc = "missUpdate"
                      /\ req[r].status = STATUS_REDIRECT
                      /\ req[r].link.id = LinkOf(c).id
                      /\ cache'[c].url = LinkOf(c).url]_vars

\* An entry still in the cache after two increments of its link.
C22_Witness ==
    \E c \in Codes :
        /\ cache[c] # NoEntry
        /\ cache[c].url = LinkOf(c).url
        /\ LinkOf(c).clicks = 2

\* C23: the cache-miss requests to one code all carry the same url to write;
\* a write on a key that is already there leaves its url as it was, so once
\* every write was served the value under the key is that url, whatever the
\* order of the writes.
C23_IdempotentPopulation ==
    /\ [](\A r \in Requests : \A o \in Requests :
            (req[r].task = "miss" /\ req[o].task = "miss" /\ req[r].code = req[o].code)
                => req[r].target = req[o].target)
    /\ [](\A r \in Requests :
            (req[r].pc = "missSet" => req[r].link.url = req[r].target)
            /\ ((req[r].task = "miss" /\ Populated(r) /\ cache[req[r].code] # NoEntry)
                   => cache[req[r].code].url = req[r].target))
    /\ [][\A c \in Codes :
            (cache[c] # NoEntry /\ now' = now) =>
                cache'[c] # NoEntry /\ cache'[c].url = cache[c].url]_vars

\* Two requests missed the cache for the same code and both wrote the key.
C23_Witness ==
    \E r \in Requests : \E o \in Requests :
        /\ r # o
        /\ req[r].task = "miss" /\ req[o].task = "miss"
        /\ req[r].code = req[o].code
        /\ req[r].pc = "missUpdate" /\ req[o].pc = "missUpdate"
        /\ cache[req[r].code].url = req[r].target

\* C25: every persisted link that has an expiresAt has expiresAt >= createdAt,
\* the rows of createShortLink and the row of the seed script alike.
C25_TimestampInvariant ==
    \A k \in DOMAIN links :
        links[k].expiresAt # Null => links[k].expiresAt >= links[k].createdAt

\* C26: a request that has no response yet is at one of two points, its cache
\* lookup or, after a miss, its store lookup, and its steps write neither the
\* store nor the cache: the cache lookup answers at once on a hit (no store
\* read) and on a cache failure, and goes to the store lookup on a miss; the
\* store lookup is followed by the response.
C26_BlockingPoints ==
    [][\A r \in Requests :
         (req[r].status = 0 /\ req'[r] # req[r]) =>
             /\ links' = links /\ cache' = cache
             /\ req[r].pc \in {"idle", "storeFind"}
             /\ req[r].pc = "idle" =>
                   IF req'[r].error # "none"
                   THEN req'[r].status = STATUS_ERROR
                   ELSE IF RedisGet(cache, req'[r].code, now) # ""
                   THEN /\ req'[r].status = STATUS_REDIRECT
                        /\ req'[r].task = "hit"
                        /\ req'[r].target = RedisGet(cache, req'[r].code, now)
                   ELSE req'[r].status = 0 /\ req'[r].pc = "storeFind"
             /\ req[r].pc = "storeFind" =>
                   /\ req'[r].status # 0
                   /\ req'[r].code = req[r].code]_vars

\* One request answered after its store lookup, the next one answered from
\* the cache, no row read, its increment not yet run.
C26_Witness ==
    \E r \in Requests : \E o \in Requests :
        /\ req[o].status = STATUS_REDIRECT /\ req[o].task = "miss"
        /\ req[r].status = STATUS_REDIRECT /\ req[r].task = "hit"
        /\ req[r].pc = "hitUpdate"
        /\ req[r].link.id = 0

\* C29: a call that returned an error wrote no row: every row written by
\* createShortLink is the row returned by a call that succeeded, one row per
\* such call, and a call that failed holds no link.
C29_FailedCreationNoRow ==
    /\ \A k \in CreatedRows :
          \E p \in Succeeded :
              /\ call[p].link = links[k].id
              /\ call[p].url = links[k].url
              /\ call[p].shortCode = links[k].shortCode
    /\ \A p \in Creators :
          (call[p].pc = "done" /\ call[p].result # Success) => call[p].link = 0
    /\ Cardinality(CreatedRows) <= Cardinality(Succeeded)

\* An exhausted call and a call that met a store failure; the store holds the
\* seed row only.
C29_Witness ==
    \E p \in Creators : \E o \in Creators :
        /\ call[p].result = ExhaustedError
        /\ call[o].logged = "StoreError"
        /\ CreatedRows = {}

\* C30: the cache-miss task first sends redis.set, which writes no row; if
\* that fails the task ends there, the increment never sent; else the
\* increment follows, which writes no cache entry.  The cache-hit task is the
\* increment alone.  Rows change only in an increment step.
C30_TaskOrder ==
    /\ [](\A r \in Requests :
            /\ req[r].pc \in {"missSet", "missUpdate"} => req[r].task = "miss"
            /\ req[r].pc = "hitUpdate" => req[r].task = "hit")
    /\ [][\A r \in Requests :
            req'[r] # req[r] =>
                /\ req[r].pc = "missSet" =>
                      /\ links' = links
                      /\ \/ req'[r].pc = "missUpdate" /\ cache'[req[r].code].url = req[r].link.url
                         \/ /\ req'[r].pc = "done"
                            /\ req'[r].bgError = "miss: CacheError"
                            /\ cache' = cache
                /\ req[r].pc \in {"missUpdate", "hitUpdate"} =>
                      /\ cache' = cache
                      /\ req'[r].pc = "done"
                      /\ links' = links <=> req'[r].bgError # "none"
                /\ links' # links => req[r].pc \in {"missUpdate", "hitUpdate"}]_vars

\* A cache-miss task whose redis.set failed: no entry, no click.
C30_Witness ==
    \E r \in Requests :
        /\ req[r].bgError = "miss: CacheError"
        /\ cache[req[r].code] = NoEntry
        /\ LinkOf(req[r].code).clicks = 0
        /\ \A o \in Requests : o # r => req[o].pc = "idle"

\* Milliseconds left until the expiresAt of the link request r asked for (in
\* TtlSpec the clock stands still, so this is the time left at the lookup).
Left(r) == LinkOf(req[r].code).expiresAt - now

\* C27 (under TtlSpec): the TTL a request computed at its lookup is, for a link with an
\* expiresAt, the whole seconds left until expiresAt (rounded down) and 1 when
\* less than a second is left, so at least 1; for a link without an expiresAt
\* it is DEFAULT_TTL, which is 7 days; the cache entry is written with it.
C27_TtlValue ==
    /\ DEFAULT_TTL * MS_PER_SECOND = WeekMs
    /\ \A r \in Requests :
          /\ req[r].pc \in {"missSet", "missUpdate"} =>
                IF LinkOf(req[r].code).expiresAt = Null
                THEN req[r].ttl = DEFAULT_TTL
                ELSE /\ req[r].ttl >= 1
                     /\ Left(r) < MS_PER_SECOND => req[r].ttl = 1
                     /\ Left(r) >= MS_PER_SECOND =>
                           /\ req[r].ttl * MS_PER_SECOND <= Left(r)
                           /\ Left(r) < (req[r].ttl + 1) * MS_PER_SECOND
          /\ req[r].pc = "missUpdate" =>
                cache[req[r].code].expireAt = now + req[r].ttl * MS_PER_SECOND

\* One entry written with the 1 second of a link that expires at this
\* instant, one request holding the default TTL of a link without expiresAt.
C27_Witness ==
    \E r \in Requests : \E o \in Requests :
        /\ req[r].pc = "missUpdate" /\ req[r].ttl = 1 /\ Left(r) = 0
        /\ req[o].pc = "missSet" /\ req[o].ttl = DEFAULT_TTL
        /\ LinkOf(req[o].code).expiresAt = Null

\* The step is a call of getRecentLinks whose findMany was served.
Listed == \E newestIdFirst \in BOOLEAN : GetRecentLinks(newestIdFirst)

\* The ids of the rows of a list.
IdsOf(list) == {list[i].id : i \in DOMAIN list}

\* C24 (under ListSpec): a call of getRecentLinks changes no stored state and
\* returns at most TAKE_RECENT rows of the store (all of them when the store holds
\* fewer), each once, by createdAt descending; no row left out has a createdAt
\* greater than one of a row returned.  A call whose findMany fails returns [].
C24_Listing ==
    /\ [][Listed =>
            /\ links' = links /\ cache' = cache
            /\ Len(recent') <= TAKE_RECENT
            /\ Len(recent') = IF Len(links) < TAKE_RECENT THEN Len(links) ELSE TAKE_RECENT
            /\ \A i \in DOMAIN recent' : \E k \in DOMAIN links : recent'[i] = links[k]
            /\ Cardinality(IdsOf(recent')) = Len(recent')
            /\ \A i \in DOMAIN recent' : \A j \in DOMAIN recent' :
                  i < j => recent'[i].createdAt >= recent'[j].createdAt
            /\ \A k \in DOMAIN links : \A i \in DOMAIN recent' :
                  links[k].id \notin IdsOf(recent') =>
                      links[k].createdAt <= recent'[i].createdAt]_vars
    /\ [][GetRecentLinksFails => recent' = <<>> /\ links' = links]_vars

\* Eleven rows in the store, ten returned: the newest first, the oldest left
\* out, two of the rows returned created in the same millisecond.
C24_Witness ==
    /\ Len(links) = TAKE_RECENT + 1
    /\ Len(recent) = TAKE_RECENT
    /\ recent[1].id = TAKE_RECENT + 1
    /\ 1 \notin IdsOf(recent)
    /\ recent[1].createdAt > recent[TAKE_RECENT].createdAt
    /\ \E i \in 1..(TAKE_RECENT - 1) : recent[i].createdAt = recent[i + 1].createdAt

\* Request r was answered on the store path: its own findUnique found a link.
StoreAnswered(r) ==
    /\ req[r].status # 0
    /\ req[r].task # "hit"
    /\ req[r].error = "none"
    /\ LinkOf(req[r].code) # NoLink

RECURSIVE DirectClicks(_, _, _, _)
DirectClicks(ls, code, t, n) ==
    IF n = 0 THEN FindUnique(ls, code).clicks
    ELSE DirectClicks(DirectStore(ls, code, t), code, t, n - 1)

\* C32: with no failure, every answer of the cached route carries the status
\* and the target the cache-less route would give from the store at that
\* instant; and once every deferred task has run, the clicks of a link are
\* those the cache-less route leaves after as many redirects (one increment
\* each on the row as created).
C32_Refinement ==
    /\ [][\A r \in Requests :
            (req[r].status = 0 /\ req'[r].status # 0 /\ req'[r].error = "none") =>
                [status |-> req'[r].status, target |-> req'[r].target]
                    = DirectGet(links, req'[r].code, now)]_vars
    /\ [](\A k \in DOMAIN links :
            (/\ Settled
             /\ \A r \in Requests : req[r].error = "none" /\ req[r].bgError = "none")
            => links[k].clicks =
                  DirectClicks(<<Frozen(links[k])>>, links[k].shortCode, links[k].createdAt,
                               Cardinality(Redirected(links[k].shortCode))))

\* C33 (under ListSpec): GET /api/links never answers 500; a call whose store
\* query failed logged the failure, returned the empty list, and the route
\* answered 200 with an empty links array.
C33_ListingMasksFailure ==
    /\ api.status \in {0, STATUS_OK}
    /\ api.links = recent
    /\ api.logged # "none" =>
          /\ api.status = STATUS_OK
          /\ api.links = <<>>

\* The store holds rows, the query failed: 200 and no links.
C33_Witness ==
    /\ Len(links) > 0
    /\ api.logged = "Failed to fetch recent links:"
    /\ api.status = STATUS_OK
    /\ recent = <<>>

====
